---- MODULE Spec2Model ----
(***************************************************************************)
(* The conversational query pipeline of the knowledge-graph front end:     *)
(* ChatWidget (components/ChatWidget/ChatTriggerButton.jsx) holding the    *)
(* message log, the input text and the streaming flag, and streamQuery     *)
(* (services/api.js) driving the three callbacks of every accepted submit. *)
(*                                                                         *)
(* Strings are sequences: an input text is a sequence of one-character     *)
(* strings, a body chunk is a sequence of bytes, a message text is a       *)
(* sequence of decoded characters and literal fragments.                   *)
(***************************************************************************)
EXTENDS Integers, Sequences, FiniteSets, TLC

VARIABLES
    isOpen,           \* useState(false): the chat window is mounted
    messages,         \* useState([]): the message log
    inputValue,       \* useState(''): the text of the input box
    isStreaming,      \* useState(false): the streaming flag
    closureStreaming, \* isStreaming as captured by handleSend at the last commit
    now,              \* Date.now()
    streams,          \* one frame per streamQuery call, in call order
    lastOp,           \* history: the operation that produced this state
    viewMessages,     \* the messages prop of one MessageList: a turn being streamed
    viewStreaming,    \* ChatWidget's isStreaming for that turn
    pieces,           \* history: the chunks that turn has received
    accumulatedText,  \* useState('') of the turn's BotMessageContent
    sections,         \* the useMemo result of the turn's BotMessageContent
    topics,             \* TopicList: the ids of the topics listed
    selectedTopicId,    \* TopicList: the selected topic, or null
    selectedTopicDetails, \* TopicList: the topic the stored details describe, or null
    listLoading,        \* TopicList: the list request has not returned
    detailLoading,      \* TopicList: useState(false)
    topicsError,        \* TopicList: the error text is not empty
    detailFetches,      \* TopicList: the calls of getTopicDetails made so far
    tableId,            \* JsonQueryChat: the tableId prop
    jsonMessages,       \* JsonQueryChat: messages
    jsonInputValue,     \* JsonQueryChat: inputValue
    isQuerying,         \* JsonQueryChat: isQuerying
    queries,            \* JsonQueryChat: the calls of queryJsonTable made so far
    selectedFile,       \* FileUpload: the file selected, or null
    uploadStatus,       \* FileUpload: status
    uploadMessage,      \* FileUpload: message
    dragOver,           \* FileUpload: dragOver
    uploads             \* FileUpload: the calls of createGraphFromPDF made so far

chatVars == <<isOpen, messages, inputValue, isStreaming, closureStreaming, now, streams, lastOp>>

viewVars == <<viewMessages, viewStreaming, pieces, accumulatedText, sections>>

topicVars == <<topics, selectedTopicId, selectedTopicDetails, listLoading,
               detailLoading, topicsError, detailFetches>>

jsonVars == <<tableId, jsonMessages, jsonInputValue, isQuerying, queries>>

uploadVars == <<selectedFile, uploadStatus, uploadMessage, dragOver, uploads>>

\* the state of the pages beside the chat widget
pageVars == <<topicVars, jsonVars, uploadVars>>

vars == <<chatVars, viewVars, pageVars>>

store == <<messages, inputValue, isStreaming, streams>>

\* ---------------------------------------------------------------- bounds

MaxTurns == 2     \* accepted submits in a run
MaxChunks == 2    \* body chunks read in a run, over all streams
MaxPieces == 3    \* chunks delivered to the turn MessageList shows
MaxSelects == 3   \* calls of getTopicDetails in a run
MaxQueries == 2   \* calls of queryJsonTable in a run
MaxUploads == 2   \* calls of createGraphFromPDF in a run

\* ---------------------------------------------------------------- inputs

\* event.target.value of the input box
InputTexts == { <<>>, <<" ">>, <<" ", "q", " ">> }

\* Bytes on the wire: "a" is an ASCII byte, "L" the lead byte and "C" the
\* continuation byte of one two-byte UTF-8 character.
WireChunks == { <<"a">>, <<"L">>, <<"C">> }

\* response.status of a resolved fetch
Statuses == { 200, 500 }

\* The values Date.now() returns, as milliseconds since the first read.
ClockValues == { 0, 1 }

\* Decoded chunks of the turn MessageList shows: lines of reasoning and of
\* answer, markers with and without a remainder, a marker cut by a chunk
\* boundary, a marker in other letter case, blank and padded lines.
Chunk_Thinking == <<"T", "\n">>
Chunk_Partial == <<"P", "a", "r", "t", "i", "a", "l", " ", "a", "n", "s", "w", "e", "r", ":", " ", "d", "\n">>
Chunk_More == <<"m">>
Chunk_Final == <<"F", "i", "n", "a", "l", " ", "a", "n", "s", "w", "e", "r", ":", " ", "4", "2">>
Chunk_Bare == <<"A", "n", "s", "w", "e", "r", ":", "\n">>
Chunk_Lower == <<"a", "n", "s", "w", "e", "r", ":", " ", "x", "\n">>
Chunk_Blank == <<" ", "\n">>
Chunk_Ans == <<"A", "n", "s">>
Chunk_wer == <<"w", "e", "r", ":", " ", "y", "\n">>
Chunk_Padded == <<" ", " ", "A", "n", "s", "w", "e", "r", ":", " ", " ", "z", " ", "\n">>

ViewChunks ==
    { Chunk_Thinking, Chunk_Partial, Chunk_More, Chunk_Final,
      Chunk_Bare, Chunk_Lower, Chunk_Blank, Chunk_Ans,
      Chunk_wer, Chunk_Padded }

\* ---------------------------------------------------------------- strings

IsSpace(c) == c \in { " ", "\t", "\n" }

RECURSIVE TrimStart(_)
TrimStart(s) ==
    IF s = <<>> THEN <<>>
    ELSE IF IsSpace(Head(s)) THEN TrimStart(Tail(s)) ELSE s

RECURSIVE TrimEnd(_)
TrimEnd(s) ==
    IF s = <<>> THEN <<>>
    ELSE IF IsSpace(s[Len(s)]) THEN TrimEnd(SubSeq(s, 1, Len(s) - 1)) ELSE s

\* String.prototype.trim
Trim(s) == TrimEnd(TrimStart(s))

\* ---------------------------------------------------------------- decoder

Char_a == "a"
Char_e == "U+00E9"        \* the character the bytes "L" "C" encode
Replacement == "U+FFFD"   \* what a malformed sequence decodes to

\* TextDecoder.decode(value, { stream: true }) of a utf-8 decoder whose buffer
\* holds `pending`: the text produced and the bytes kept for the next call.
RECURSIVE Decode(_, _)
Decode(pending, bytes) ==
    IF bytes = <<>> THEN [text |-> <<>>, pending |-> pending]
    ELSE
        LET b == Head(bytes)
            out == IF pending = <<>>
                   THEN IF b = "a" THEN <<Char_a>>
                        ELSE IF b = "L" THEN <<>>
                        ELSE <<Replacement>>
                   ELSE IF b = "C" THEN <<Char_e>>
                        ELSE IF b = "a" THEN <<Replacement, Char_a>>
                        ELSE <<Replacement>>
            keep == IF b = "L" THEN <<"L">> ELSE <<>>
            rest == Decode(keep, Tail(bytes))
        IN  [text |-> out \o rest.text, pending |-> rest.pending]

\* ---------------------------------------------------------------- ChatWidget

Message(id, sender, text, error) ==
    [id |-> id, sender |-> sender, text |-> text, error |-> error]

\* handleSend without the streaming half of its guard
SendRejected_EmptyOnly(trimmedInput, streaming) == trimmedInput = <<>>

\* handleSend with && in place of || in its guard
SendRejected_Both(trimmedInput, streaming) == trimmedInput = <<>> /\ streaming

\* if (!trimmedInput || isStreaming) return;
SendRejected(trimmedInput, streaming) == trimmedInput = <<>> \/ streaming

\* handleSend using the input as typed
TrimmedInput_Raw(value) == value

\* const trimmedInput = inputValue.trim();
TrimmedInput(value) == Trim(value)

\* setMessages(prev => [...prev, userMessage, botMessagePlaceholder])
AppendTurn(prev, trimmedInput, t1, t2) ==
    prev \o << Message(t1, "user", trimmedInput, FALSE),
               Message(t2 + 1, "bot", <<>>, FALSE) >>

\* the chunk put in front of the text so far
Accumulate_Prepend(acc, chunk) == chunk \o acc

\* accumulatedBotResponse += chunk
Accumulate(acc, chunk) == acc \o chunk

\* callbacks that look for the placeholder at the second place of the log
LastMessageIndex_FirstBot(prev) == IF Len(prev) >= 2 THEN 2 ELSE Len(prev)

\* const lastMessageIndex = updatedMessages.length - 1  (1-based here)
LastMessageIndex(prev) == Len(prev)

\* a chunk callback that writes the text into every assistant message
onChunk_EveryBot(prev, acc) ==
    [ i \in 1..Len(prev) |->
        IF prev[i].sender = "bot" THEN [prev[i] EXCEPT !.text = acc] ELSE prev[i] ]

\* the setMessages updater of the chunk callback
onChunk(prev, acc) ==
    LET i == LastMessageIndex(prev)
    IN  IF i >= 1 /\ prev[i].sender = "bot"
        THEN [prev EXCEPT ![i].text = acc]
        ELSE prev

\* `Sorry, I encountered an error: ${error.message}`
ErrorText(msg) == <<"Sorry, I encountered an error: ">> \o msg

\* an error callback that looks for the first assistant message
ErrorMessageIndex_FirstBot(prev) == IF Len(prev) >= 2 THEN 2 ELSE Len(prev)

\* const lastMessageIndex = updatedMessages.length - 1 of the error callback
ErrorMessageIndex(prev) == Len(prev)

\* the error callback putting a new message in place of the last one
onError_Replace(prev, msg, t) ==
    SubSeq(prev, 1, Len(prev) - 1)
        \o << Message(t, "bot", <<"Error: ">> \o msg, TRUE) >>

\* the error callback appending a message in every case
onError_AlwaysPush(prev, msg, t) ==
    Append(prev, Message(t, "bot", <<"Error: ">> \o msg, TRUE))

\* the setMessages updater of the error callback; t is Date.now()
onError(prev, msg, t) ==
    LET i == ErrorMessageIndex(prev)
    IN  IF i >= 1 /\ prev[i].sender = "bot"
        THEN [prev EXCEPT ![i].text = ErrorText(msg), ![i].error = TRUE]
        ELSE Append(prev, Message(t, "bot", <<"Error: ">> \o msg, TRUE))

\* The catch of handleSend around await streamQuery(...): the widget after it;
\* t is Date.now()
handleSendCatch(w, msg, t) ==
    [ messages |-> Append(w.messages,
                          Message(t, "bot", <<"Failed to connect: ">> \o msg, TRUE)),
      isStreaming |-> FALSE ]

\* ---------------------------------------------------------------- streamQuery

Call(cb, arg) == [cb |-> cb, arg |-> arg]

\* if (!response.ok) throw ...; if (!response.body) throw ...
ResponseOk(status) == status \in 200..299

\* streamQuery without the response.ok check
ResponseThrows_BodyOnly(status, hasBody) == ~hasBody

ResponseThrows(status, hasBody) == ~ResponseOk(status) \/ ~hasBody

StatusText(status) == IF status = 200 THEN "200" ELSE "500"

ResponseError(status) ==
    IF ~ResponseOk(status)
    THEN <<"HTTP error! status: ", StatusText(status)>>
    ELSE <<"Response body is null">>

\* streamQuery returning after the loop without a callback
LoopExitCalls_None == <<>>

\* the callbacks streamQuery invokes once the read loop has ended: onComplete()
LoopExitCalls == << Call("complete", <<>>) >>

\* a catch block that only logs the error
CatchCalls_None(msg) == <<>>

\* the callbacks the catch block invokes: onError(error)
CatchCalls(msg) == << Call("error", msg) >>

\* a catch block that throws the error again after onError
StreamQueryRejects_OnError(calls) == \E k \in 1..Len(calls) : calls[k].cb = "error"

\* Whether the promise of a call that ended through `calls` rejects: the
\* catch block ends after onError and the try block throws nothing past it
StreamQueryRejects(calls) == FALSE

\* The widget state after the callbacks `calls` have run in order.
RECURSIVE RunCalls(_, _, _)
RunCalls(w, calls, t) ==
    IF calls = <<>> THEN w
    ELSE
        LET c == Head(calls)
            w1 == IF c.cb = "complete" THEN [w EXCEPT !.isStreaming = FALSE]
                  ELSE IF c.cb = "error"
                  THEN [messages |-> onError(w.messages, c.arg, t), isStreaming |-> FALSE]
                  ELSE w
        IN  RunCalls(w1, Tail(calls), t)

Widget == [messages |-> messages, isStreaming |-> isStreaming]

\* The frame of one streamQuery call made by handleSend: the query sent, where
\* the call stands (awaiting fetch, awaiting reader.read(), returned), what the
\* source did (the response's status, how the call ended, the chunks read),
\* the decoder's buffer, handleSend's accumulatedBotResponse, the callbacks
\* invoked so far, and whether the call's promise rejected.
Stream(query) ==
    [ query |-> query, pc |-> "fetch", outcome |-> "open",
      status |-> 0, wire |-> <<>>,
      pending |-> <<>>, acc |-> <<>>, calls |-> <<>>, rejected |-> FALSE ]

InFlight == { s \in 1..Len(streams) : streams[s].pc # "done" }

RECURSIVE ChunksRead(_)
ChunksRead(ss) == IF ss = <<>> THEN 0 ELSE Len(Head(ss).wire) + ChunksRead(Tail(ss))

\* ---------------------------------------------------------------- MessageList

\* <MessageList messages={messages} />: ChatWindow passes no isStreaming, so
\* the prop is undefined whatever the widget's flag is
StreamingProp_Passed(streaming) == streaming

StreamingProp(streaming) == FALSE

\* isStreaming={isStreaming && msg.id === messages[messages.length - 1].id}
BotIsStreaming(prop, msgs, i) == prop /\ msgs[i].id = msgs[Len(msgs)].id

\* the effect of BotMessageContent on [messageText, isStreaming]
AccumulateEffect(prev, messageText, streaming) ==
    IF streaming THEN prev \o messageText ELSE messageText

\* String.prototype.split('\n')
RECURSIVE Split(_, _)
Split(text, line) ==
    IF text = <<>> THEN <<line>>
    ELSE IF Head(text) = "\n" THEN <<line>> \o Split(Tail(text), <<>>)
    ELSE Split(Tail(text), Append(line, Head(text)))

\* the lines of the split, blank ones kept
NonBlank_All(lines) == lines

\* .filter(line => line.trim() !== '')
RECURSIVE NonBlank(_)
NonBlank(lines) ==
    IF lines = <<>> THEN <<>>
    ELSE IF Trim(Head(lines)) # <<>> THEN <<Head(lines)>> \o NonBlank(Tail(lines))
    ELSE NonBlank(Tail(lines))

answerPrefixes ==
    << <<"A", "n", "s", "w", "e", "r", ":">>,
       <<"F", "i", "n", "a", "l", " ", "a", "n", "s", "w", "e", "r", ":">>,
       <<"P", "a", "r", "t", "i", "a", "l", " ", "a", "n", "s", "w", "e", "r", ":">> >>

Lower(c) ==
    CASE c = "A" -> "a" [] c = "F" -> "f" [] c = "P" -> "p" [] OTHER -> c

\* startsWith comparing letters without their case
StartsWith_AnyCase(line, prefix) ==
    /\ Len(line) >= Len(prefix)
    /\ \A k \in 1..Len(prefix) : Lower(line[k]) = Lower(prefix[k])

\* String.prototype.startsWith
StartsWith(line, prefix) ==
    /\ Len(line) >= Len(prefix)
    /\ SubSeq(line, 1, Len(prefix)) = prefix

\* for (const prefix of answerPrefixes) { if (startsWith) { ...; break; } }:
\* the index of the prefix the loop stops at, from the k-th on, 0 if none
RECURSIVE MatchPrefix(_, _)
MatchPrefix(trimmedLine, k) ==
    IF k > Len(answerPrefixes) THEN 0
    ELSE IF StartsWith(trimmedLine, answerPrefixes[k]) THEN k
    ELSE MatchPrefix(trimmedLine, k + 1)

\* trimmedLine.substring(prefix.length).trim()
AnswerContent(trimmedLine, k) ==
    Trim(SubSeq(trimmedLine, Len(answerPrefixes[k]) + 1, Len(trimmedLine)))

\* a loop body that puts every line without a prefix in thinking
ParseLine_NoMode(st, line) ==
    LET trimmedLine == Trim(line)
        k == MatchPrefix(trimmedLine, 1)
    IN  IF k # 0
        THEN [st EXCEPT !.answerStarted = TRUE,
                        !.foundAnswerPrefix = TRUE,
                        !.answer = IF AnswerContent(trimmedLine, k) # <<>>
                                   THEN Append(@, AnswerContent(trimmedLine, k))
                                   ELSE @]
        ELSE [st EXCEPT !.thinking = Append(@, trimmedLine)]

\* the body of for (const line of lines)
ParseLine(st, line) ==
    LET trimmedLine == Trim(line)
        k == MatchPrefix(trimmedLine, 1)
    IN  IF k # 0
        THEN [st EXCEPT !.answerStarted = TRUE,
                        !.foundAnswerPrefix = TRUE,
                        !.answer = IF AnswerContent(trimmedLine, k) # <<>>
                                   THEN Append(@, AnswerContent(trimmedLine, k))
                                   ELSE @]
        ELSE IF st.answerStarted
        THEN [st EXCEPT !.answer = Append(@, trimmedLine)]
        ELSE [st EXCEPT !.thinking = Append(@, trimmedLine)]

RECURSIVE ParseLines(_, _)
ParseLines(st, lines) ==
    IF lines = <<>> THEN st ELSE ParseLines(ParseLine(st, Head(lines)), Tail(lines))

Sections(thinkingLines, answerLines, isStructured) ==
    [thinkingLines |-> thinkingLines, answerLines |-> answerLines,
     isStructured |-> isStructured]

\* the memo returning what the loop collected, without its fallback
ParseResult_NoFallback(st) ==
    Sections(st.thinking, st.answer, st.foundAnswerPrefix \/ st.thinking # <<>>)

\* const structured = ...; the fallback for a text without a prefix; the return
ParseResult(st) ==
    IF ~st.foundAnswerPrefix /\ st.thinking # <<>>
    THEN Sections(<<>>, st.thinking, FALSE)
    ELSE Sections(st.thinking, st.answer, st.foundAnswerPrefix \/ st.thinking # <<>>)

\* the useMemo of BotMessageContent on [accumulatedText]
Parse(text) ==
    IF text = <<>> THEN Sections(<<>>, <<>>, FALSE)
    ELSE ParseResult(ParseLines([thinking |-> <<>>, answer |-> <<>>,
                                 answerStarted |-> FALSE,
                                 foundAnswerPrefix |-> FALSE],
                                NonBlank(Split(text, <<>>))))

\* ---------------------------------------------------------------- pages

\* null, for an id
null == 0

\* the ids of the topics getAllTopics returns
TopicIds == { 1, 2 }

\* A call of getTopicDetails or createGraphFromPDF: what it was made for and
\* whether it has returned
Request(arg) == [arg |-> arg, pc |-> "pending"]

Pending(requests) == { r \in 1..Len(requests) : requests[r].pc = "pending" }

\* the tables of the page, by id
TableIds == { 1, 2 }

\* the answers queryJsonTable can return: a text or none
JsonAnswers == { <<"answer">>, <<>> }

\* A message of JsonQueryChat; `query` stands for its identity: the call of
\* queryJsonTable it was made for, 0 for the greeting
JsonMessage(sender, text, error, query) ==
    [sender |-> sender, text |-> text, error |-> error, query |-> query]

\* { id: Date.now(), sender: 'bot', text: `Ready to answer questions ...` }
Greeting == JsonMessage("bot", <<"Ready to answer questions">>, FALSE, 0)

\* prev.slice(0, -1)
DropLast(prev) == SubSeq(prev, 1, Len(prev) - 1)

\* response.data?.answer || "Sorry, I couldn't find an answer."
BotResponse(answer) ==
    IF answer = <<>> THEN <<"Sorry, I couldn't find an answer.">> ELSE answer

\* useState(null) of selectedFile
NoFile == "null"

\* the files a user can pick or drop
Files == { "a.pdf", "b.pdf", "c.txt" }

\* file && file.type === 'application/pdf'
IsPdf(file) == file \in { "a.pdf", "b.pdf" }

\* ---------------------------------------------------------------- actions

Init ==
    /\ isOpen = FALSE
    /\ messages = <<>>
    /\ inputValue = <<>>
    /\ isStreaming = FALSE
    /\ closureStreaming = FALSE
    /\ now = 0
    /\ streams = <<>>
    /\ lastOp = "other"
    /\ viewMessages = AppendTurn(<<>>, <<"q">>, 0, 0)
    /\ viewStreaming = TRUE
    /\ pieces = <<>>
    /\ accumulatedText = <<>>
    /\ sections = Parse(<<>>)
    /\ topics = {}
    /\ selectedTopicId = null
    /\ selectedTopicDetails = null
    /\ listLoading = TRUE
    /\ detailLoading = FALSE
    /\ topicsError = FALSE
    /\ detailFetches = <<>>
    /\ tableId = 1
    /\ jsonMessages = <<Greeting>>
    /\ jsonInputValue = <<>>
    /\ isQuerying = FALSE
    /\ queries = <<>>
    /\ selectedFile = NoFile
    /\ uploadStatus = "idle"
    /\ uploadMessage = ""
    /\ dragOver = FALSE
    /\ uploads = <<>>

\* setIsOpen(prev => !prev)
toggleChat ==
    /\ isOpen' = ~isOpen
    /\ lastOp' = "other"
    /\ UNCHANGED <<messages, inputValue, isStreaming, closureStreaming, now, streams>>
    /\ UNCHANGED <<viewVars, pageVars>>

\* setInputValue(event.target.value); the input exists while the window is open
handleInputChange ==
    /\ isOpen
    /\ \E v \in InputTexts : inputValue' = v
    /\ lastOp' = "other"
    /\ UNCHANGED <<isOpen, messages, isStreaming, closureStreaming, now, streams>>
    /\ UNCHANGED <<viewVars, pageVars>>

\* A click on the send button or Enter in the input box: handleSend up to its
\* first await, and the synchronous commit React makes of the three updates.
\* The handler is invoked whether or not the button and the input are disabled.
\* Date.now() is read where the code reads it; both reads of one call return
\* the same value, which is the last value read or a later one.
handleSend ==
    /\ isOpen
    /\ LET trimmedInput == TrimmedInput(inputValue)
       IN  IF SendRejected(trimmedInput, closureStreaming)
           THEN /\ lastOp' = "handleSend"
                /\ UNCHANGED <<isOpen, messages, inputValue, isStreaming,
                               closureStreaming, now, streams>>
           ELSE /\ Len(streams) < MaxTurns
                /\ \E t \in { now, now + 1 } :
                      /\ t \in ClockValues
                      /\ messages' = AppendTurn(messages, trimmedInput, t, t)
                      /\ now' = t
                /\ inputValue' = <<>>
                /\ isStreaming' = TRUE
                /\ closureStreaming' = TRUE
                /\ streams' = Append(streams, Stream(trimmedInput))
                /\ lastOp' = "handleSend"
                /\ UNCHANGED isOpen
    /\ UNCHANGED <<viewVars, pageVars>>

\* A commit of the updates the stream callbacks have queued: handleSend is
\* created again and captures the current isStreaming.
Render ==
    /\ closureStreaming # isStreaming
    /\ closureStreaming' = isStreaming
    /\ lastOp' = "other"
    /\ UNCHANGED <<isOpen, messages, inputValue, isStreaming, now, streams>>
    /\ UNCHANGED <<viewVars, pageVars>>

\* streamQuery leaves through `calls` with the source having ended as
\* `outcome`; handleSend resumes after its await, in its catch if the promise
\* rejected
Finish(s, outcome, status, calls) ==
    LET rejected == StreamQueryRejects(calls)
        returned == RunCalls(Widget, calls, now)
        w == IF rejected
             THEN handleSendCatch(returned, calls[Len(calls)].arg, now)
             ELSE returned
    IN  /\ messages' = w.messages
        /\ isStreaming' = w.isStreaming
        /\ streams' = [streams EXCEPT ![s].pc = "done",
                                      ![s].outcome = outcome,
                                      ![s].status = status,
                                      ![s].calls = @ \o calls,
                                      ![s].rejected = rejected]
        /\ UNCHANGED <<isOpen, inputValue, closureStreaming, now>>

\* await fetch(...) rejects: the catch block runs
FetchReject(s) ==
    /\ streams[s].pc = "fetch"
    /\ Finish(s, "network", 0, CatchCalls(<<"Failed to fetch">>))
    /\ lastOp' = "other"

\* await fetch(...) resolves with a response
FetchResolve(s) ==
    /\ streams[s].pc = "fetch"
    /\ \E status \in Statuses, hasBody \in BOOLEAN :
          IF ResponseThrows(status, hasBody)
          THEN Finish(s, IF ResponseOk(status) THEN "nobody" ELSE "status",
                      status, CatchCalls(ResponseError(status)))
          ELSE /\ streams' = [streams EXCEPT ![s].pc = "read",
                                             ![s].status = status]
               /\ UNCHANGED <<isOpen, messages, inputValue, isStreaming,
                              closureStreaming, now>>
    /\ lastOp' = "other"

\* await reader.read() resolves with { done: false, value }
ReadChunk(s) ==
    /\ streams[s].pc = "read"
    /\ ChunksRead(streams) < MaxChunks
    /\ \E value \in WireChunks :
          LET d == Decode(streams[s].pending, value)
              acc == Accumulate(streams[s].acc, d.text)
          IN  /\ messages' = onChunk(messages, acc)
              /\ streams' = [streams EXCEPT ![s].wire = Append(@, value),
                                            ![s].pending = d.pending,
                                            ![s].acc = acc,
                                            ![s].calls = Append(@, Call("chunk", d.text))]
    /\ lastOp' = "other"
    /\ UNCHANGED <<isOpen, inputValue, isStreaming, closureStreaming, now>>

\* await reader.read() resolves with { done: true }
ReadDone(s) ==
    /\ streams[s].pc = "read"
    /\ Finish(s, "eof", streams[s].status, LoopExitCalls)
    /\ lastOp' = "other"

\* await reader.read() rejects
ReadReject(s) ==
    /\ streams[s].pc = "read"
    /\ Finish(s, "readfail", streams[s].status,
              CatchCalls(<<"network error">>))
    /\ lastOp' = "other"

streamQuery ==
    /\ \E s \in 1..Len(streams) :
          \/ FetchReject(s)
          \/ FetchResolve(s)
          \/ ReadChunk(s)
          \/ ReadDone(s)
          \/ ReadReject(s)
    /\ UNCHANGED <<viewVars, pageVars>>

Next ==
    \/ toggleChat
    \/ handleInputChange
    \/ handleSend
    \/ Render
    \/ streamQuery

Spec == Init /\ [][Next]_vars

\* The awaits of streamQuery are settled by the browser and the commits React
\* has queued are made: no call of streamQuery and no pending render waits
\* for ever.
FairSpec == Spec /\ WF_vars(streamQuery) /\ WF_vars(Render)

\* ---------------------------------------------------------------- one turn in MessageList

\* accumulatedBotResponse after the chunks `ps`
RECURSIVE Accumulated(_)
Accumulated(ps) ==
    IF ps = <<>> THEN <<>>
    ELSE Accumulate(Accumulated(SubSeq(ps, 1, Len(ps) - 1)), ps[Len(ps)])

\* The props BotMessageContent gets for message i, the dependencies of its effect
Props(msgs, streaming, i) ==
    << msgs[i].text, BotIsStreaming(StreamingProp(streaming), msgs, i) >>

\* A render of message i after the store went from (msgs, streaming) to
\* (msgs2, streaming2): the effect runs when one of its dependencies changed
Rendered(prev, msgs, streaming, msgs2, streaming2, i) ==
    IF Props(msgs2, streaming2, i) # Props(msgs, streaming, i)
    THEN AccumulateEffect(prev, Props(msgs2, streaming2, i)[1],
                          Props(msgs2, streaming2, i)[2])
    ELSE prev

\* onChunk of the turn and the render that follows it
ViewChunk ==
    /\ viewStreaming
    /\ Len(pieces) < MaxPieces
    /\ \E chunk \in ViewChunks :
          LET ps == Append(pieces, chunk)
              msgs == onChunk(viewMessages, Accumulated(ps))
              text == Rendered(accumulatedText, viewMessages, viewStreaming,
                               msgs, viewStreaming, Len(msgs))
          IN  /\ pieces' = ps
              /\ viewMessages' = msgs
              /\ accumulatedText' = text
              /\ sections' = Parse(text)
    /\ UNCHANGED <<viewStreaming, chatVars, pageVars>>

\* onComplete of the turn and the render that follows it
ViewComplete ==
    /\ viewStreaming
    /\ viewStreaming' = FALSE
    /\ LET text == Rendered(accumulatedText, viewMessages, viewStreaming,
                            viewMessages, FALSE, Len(viewMessages))
       IN  /\ accumulatedText' = text
           /\ sections' = Parse(text)
    /\ UNCHANGED <<viewMessages, pieces, chatVars, pageVars>>

NextView ==
    \/ ViewChunk
    \/ ViewComplete

SpecView == Init /\ [][NextView]_vars

\* ---------------------------------------------------------------- TopicList

\* the effect run on mount: getAllTopics returns the list or fails
fetchTopics ==
    /\ listLoading
    /\ \/ /\ topics' = TopicIds
          /\ UNCHANGED topicsError
       \/ /\ topics' = {}
          /\ topicsError' = TRUE
    /\ listLoading' = FALSE
    /\ UNCHANGED <<selectedTopicId, selectedTopicDetails, detailLoading, detailFetches>>
    /\ UNCHANGED <<chatVars, viewVars, jsonVars, uploadVars>>

\* A click on a listed topic: handleSelectTopic up to its await. The list is
\* shown once it has loaded.
handleSelectTopic ==
    /\ ~listLoading
    /\ \E topicId \in topics :
          IF selectedTopicId = topicId
          THEN /\ selectedTopicId' = null
               /\ selectedTopicDetails' = null
               /\ topicsError' = FALSE
               /\ UNCHANGED <<detailLoading, detailFetches>>
          ELSE /\ Len(detailFetches) < MaxSelects
               /\ selectedTopicId' = topicId
               /\ selectedTopicDetails' = null
               /\ detailLoading' = TRUE
               /\ topicsError' = FALSE
               /\ detailFetches' = Append(detailFetches, Request(topicId))
    /\ UNCHANGED <<topics, listLoading>>
    /\ UNCHANGED <<chatVars, viewVars, jsonVars, uploadVars>>

\* await getTopicDetails(topicId) settles: the rest of handleSelectTopic,
\* its try or its catch, then its finally
getTopicDetails ==
    /\ \E f \in Pending(detailFetches) :
          /\ \/ /\ selectedTopicDetails' = detailFetches[f].arg
                /\ UNCHANGED topicsError
             \/ /\ topicsError' = TRUE
                /\ selectedTopicDetails' = null
          /\ detailLoading' = FALSE
          /\ detailFetches' = [detailFetches EXCEPT ![f].pc = "done"]
    /\ UNCHANGED <<topics, selectedTopicId, listLoading>>
    /\ UNCHANGED <<chatVars, viewVars, jsonVars, uploadVars>>

NextTopics ==
    \/ fetchTopics
    \/ handleSelectTopic
    \/ getTopicDetails

SpecTopics == Init /\ [][NextTopics]_vars

\* ---------------------------------------------------------------- JsonQueryChat

\* The tableId and tableName props change and the reset effect runs
tableChange ==
    /\ \E id \in TableIds \ { tableId } : tableId' = id
    /\ jsonMessages' = <<Greeting>>
    /\ jsonInputValue' = <<>>
    /\ isQuerying' = FALSE
    /\ UNCHANGED queries
    /\ UNCHANGED <<chatVars, viewVars, topicVars, uploadVars>>

\* setInputValue(event.target.value)
jsonHandleInputChange ==
    /\ \E v \in InputTexts : jsonInputValue' = v
    /\ UNCHANGED <<tableId, jsonMessages, isQuerying, queries>>
    /\ UNCHANGED <<chatVars, viewVars, topicVars, uploadVars>>

\* handleSend of JsonQueryChat up to its await, seeing the state of the last
\* render; a call that returns at the guard changes nothing
jsonHandleSend ==
    /\ LET trimmedInput == Trim(jsonInputValue)
           q == Len(queries) + 1
       IN  IF trimmedInput = <<>> \/ isQuerying \/ tableId = null
           THEN UNCHANGED jsonVars
           ELSE /\ Len(queries) < MaxQueries
                /\ jsonMessages' = jsonMessages \o
                       << JsonMessage("user", trimmedInput, FALSE, q),
                          JsonMessage("bot", <<"Thinking...">>, FALSE, q) >>
                /\ jsonInputValue' = <<>>
                /\ isQuerying' = TRUE
                /\ queries' = Append(queries, Request(tableId))
                /\ UNCHANGED tableId
    /\ UNCHANGED <<chatVars, viewVars, topicVars, uploadVars>>

\* await queryJsonTable(...) settles: the rest of handleSend, its try or its
\* catch, then its finally
queryJsonTable ==
    /\ \E q \in Pending(queries) :
          /\ \/ \E answer \in JsonAnswers :
                   jsonMessages' = Append(DropLast(jsonMessages),
                       JsonMessage("bot", BotResponse(answer), FALSE, q))
             \/ jsonMessages' = Append(DropLast(jsonMessages),
                     JsonMessage("bot", <<"Sorry, I encountered an error: ",
                                          "Network Error">>, TRUE, q))
          /\ queries' = [queries EXCEPT ![q].pc = "done"]
    /\ isQuerying' = FALSE
    /\ UNCHANGED <<tableId, jsonInputValue>>
    /\ UNCHANGED <<chatVars, viewVars, topicVars, uploadVars>>

NextJson ==
    \/ tableChange
    \/ jsonHandleInputChange
    \/ jsonHandleSend
    \/ queryJsonTable

SpecJson == Init /\ [][NextJson]_vars

\* ---------------------------------------------------------------- FileUpload

\* what handleFileChange and handleDrop do with the file they got
TakeFile(file, complaint) ==
    IF IsPdf(file)
    THEN /\ selectedFile' = file
         /\ uploadStatus' = "idle"
         /\ uploadMessage' = ""
    ELSE /\ selectedFile' = NoFile
         /\ uploadStatus' = "error"
         /\ uploadMessage' = complaint

\* change event of the file input, which is disabled while uploading
handleFileChange ==
    /\ uploadStatus # "uploading"
    /\ \E file \in Files : TakeFile(file, "Please select a PDF file.")
    /\ UNCHANGED <<dragOver, uploads>>
    /\ UNCHANGED <<chatVars, viewVars, topicVars, jsonVars>>

\* drop event on the drop zone
handleDrop ==
    /\ dragOver' = FALSE
    /\ \E file \in Files : TakeFile(file, "Please drop a PDF file.")
    /\ UNCHANGED uploads
    /\ UNCHANGED <<chatVars, viewVars, topicVars, jsonVars>>

handleDragOver ==
    /\ dragOver' = TRUE
    /\ UNCHANGED <<selectedFile, uploadStatus, uploadMessage, uploads>>
    /\ UNCHANGED <<chatVars, viewVars, topicVars, jsonVars>>

handleDragLeave ==
    /\ dragOver' = FALSE
    /\ UNCHANGED <<selectedFile, uploadStatus, uploadMessage, uploads>>
    /\ UNCHANGED <<chatVars, viewVars, topicVars, jsonVars>>

\* A click on the upload button, which is disabled without a file and while
\* uploading: handleUpload up to its await
handleUpload ==
    /\ selectedFile # NoFile /\ uploadStatus # "uploading"
    /\ IF selectedFile = NoFile
       THEN /\ uploadStatus' = "error"
            /\ uploadMessage' = "No file selected."
            /\ UNCHANGED <<selectedFile, uploads>>
       ELSE /\ Len(uploads) < MaxUploads
            /\ uploadStatus' = "uploading"
            /\ uploadMessage' = "Uploading and processing PDF..."
            /\ uploads' = Append(uploads, Request(selectedFile))
            /\ UNCHANGED selectedFile
    /\ UNCHANGED dragOver
    /\ UNCHANGED <<chatVars, viewVars, topicVars, jsonVars>>

\* await createGraphFromPDF(...) settles: the try or the catch of handleUpload
createGraphFromPDF ==
    /\ \E u \in Pending(uploads) :
          /\ \/ /\ uploadStatus' = "success"
                /\ uploadMessage' = "Graph created successfully!"
                /\ selectedFile' = NoFile
             \/ /\ uploadStatus' = "error"
                /\ uploadMessage' = "An error occurred during upload."
                /\ UNCHANGED selectedFile
          /\ uploads' = [uploads EXCEPT ![u].pc = "done"]
    /\ UNCHANGED dragOver
    /\ UNCHANGED <<chatVars, viewVars, topicVars, jsonVars>>

NextUpload ==
    \/ handleFileChange
    \/ handleDrop
    \/ handleDragOver
    \/ handleDragLeave
    \/ handleUpload
    \/ createGraphFromPDF

SpecUpload == Init /\ [][NextUpload]_vars

\* ---------------------------------------------------------------- properties

\* the index in the log of the assistant placeholder of stream s
Bot(s) == 2 * s

\* the concatenation of the texts ss, in order
RECURSIVE Concat(_)
Concat(ss) == IF ss = <<>> THEN <<>> ELSE Head(ss) \o Concat(Tail(ss))

IsChunk(c) == c.cb = "chunk"

\* the texts passed to onChunk by the calls of one stream, in call order
ChunkArgs(calls) ==
    LET cs == SelectSeq(calls, IsChunk)
    IN  [ k \in 1..Len(cs) |-> cs[k].arg ]

Count(calls, cb) == Cardinality({ k \in 1..Len(calls) : calls[k].cb = cb })

\* the decoding, chunk by chunk, of the body chunks `wire` by one streaming decoder
RECURSIVE DecodeEach(_, _)
DecodeEach(pending, wire) ==
    IF wire = <<>> THEN <<>>
    ELSE LET d == Decode(pending, Head(wire))
         IN  <<d.text>> \o DecodeEach(d.pending, Tail(wire))

\* C1: at any instant at most one stream opened by handleSend is in flight
\* (opened, neither completed nor failed), so at most one assistant message is
\* receiving chunks; while one is in flight it is the latest stream.
C1_SingleInFlight ==
    /\ Cardinality(InFlight) <= 1
    /\ InFlight # {} => InFlight = { Len(streams) }

\* a second turn receiving chunks after the first has ended, a send event
\* having just been handled while it streams
C1_Witness ==
    /\ Len(streams) = 2
    /\ InFlight = { 2 }
    /\ streams[2].wire # <<>>
    /\ lastOp = "handleSend"

\* C2: a handleSend made while a stream is in flight changes neither the
\* message log, the input text, the streaming flag nor the streams (no request
\* is issued); and nothing is queued: a request is issued and messages are
\* added only by a step that is itself a handleSend made with no stream in flight.
C2_RejectedWhileStreaming ==
    [][ /\ (lastOp' = "handleSend" /\ InFlight # {}) => UNCHANGED store
        /\ (Len(streams') # Len(streams)) => (lastOp' = "handleSend" /\ InFlight = {})
      ]_vars

\* a submit of a non-blank input has just been rejected while a stream is in flight
C2_Witness ==
    /\ lastOp = "handleSend"
    /\ InFlight # {}
    /\ Trim(inputValue) # <<>>
    /\ \E s \in InFlight : streams[s].wire # <<>>

\* C3: a handleSend whose input trims to the empty string changes neither the
\* log, the input, the flag nor the streams; a handleSend that does add
\* messages issues exactly one request, and it carries the trimmed input.
C3_EmptyRejectedOneRequest ==
    [][ lastOp' = "handleSend" =>
          IF Trim(inputValue) = <<>>
          THEN UNCHANGED store
          ELSE messages' # messages =>
                 /\ Len(streams') = Len(streams) + 1
                 /\ SubSeq(streams', 1, Len(streams)) = streams
                 /\ streams'[Len(streams')] = Stream(Trim(inputValue))
      ]_vars

\* a whitespace-only submit has just been rejected with no turn in flight,
\* after an earlier submit was accepted and issued its request
C3_Witness ==
    /\ lastOp = "handleSend"
    /\ inputValue = <<" ">>
    /\ ~closureStreaming
    /\ InFlight = {}
    /\ Len(streams) = 1
    /\ streams[1].query = <<"q">>

\* the log is a sequence of (user, assistant) pairs, one pair per request
PairedLog ==
    /\ Len(messages) = 2 * Len(streams)
    /\ \A s \in 1..Len(streams) :
          /\ messages[Bot(s) - 1].sender = "user"
          /\ messages[Bot(s) - 1].text = streams[s].query
          /\ messages[Bot(s)].sender = "bot"

\* the log grows only in a handleSend step, by one user message followed by one
\* empty assistant placeholder
GrowsByPair ==
    Len(messages') # Len(messages) =>
        /\ lastOp' = "handleSend"
        /\ Len(messages') = Len(messages) + 2
        /\ SubSeq(messages', 1, Len(messages)) = messages
        /\ messages'[Len(messages) + 1].sender = "user"
        /\ messages'[Len(messages) + 1].text = Trim(inputValue)
        /\ messages'[Len(messages) + 2].sender = "bot"
        /\ messages'[Len(messages) + 2].text = <<>>
        /\ ~messages'[Len(messages) + 2].error

\* C4: after any sequence of submits, chunks, completions and errors the log
\* consists of consecutive (user, assistant) pairs; every accepted submit
\* appends exactly one user message and one empty assistant placeholder in one
\* update, and no other operation, the error handlers included, adds a message.
C4_PairedLog == []PairedLog /\ [][GrowsByPair]_vars

\* two turns have both ended in the error handler
C4_Witness ==
    /\ Len(messages) = 4
    /\ messages[2].error
    /\ messages[4].error
    /\ InFlight = {}

\* C5: when the transport fails after chunks have been delivered, the failed
\* assistant message keeps the text accumulated so far (the concatenation of
\* the chunks received), the error being recorded apart from it.
C5_PartialTextKept ==
    \A s \in 1..Len(streams) :
        ( /\ streams[s].outcome = "readfail"
          /\ Concat(ChunkArgs(streams[s].calls)) # <<>>
          /\ Bot(s) <= Len(messages) )
        => /\ messages[Bot(s)].error
           /\ messages[Bot(s)].text = Concat(ChunkArgs(streams[s].calls))

\* C6: once the stream of an assistant message has completed or failed, no
\* later step (chunk, submit, completion or error of any stream) changes the
\* text of that message.
C6_TerminalTextFrozen ==
    [][ \A s \in 1..Len(streams) :
          (streams[s].pc = "done" /\ Bot(s) <= Len(messages))
          => /\ Bot(s) <= Len(messages')
             /\ messages'[Bot(s)].text = messages[Bot(s)].text
      ]_vars

\* the first turn completed with text, and a chunk of the second turn has
\* arrived since
C6_Witness ==
    /\ Len(streams) = 2
    /\ streams[1].outcome = "eof"
    /\ messages[2].text # <<>>
    /\ Count(streams[2].calls, "chunk") >= 1
    /\ messages[4].text # <<>>

\* C7: onChunk receives the decoded chunks in the order the body chunks were
\* read, one call per chunk read, and while the turn is streaming the text of
\* its placeholder is the concatenation, in that order, of the chunks delivered.
C7_ChunksInOrder ==
    \A s \in 1..Len(streams) :
        LET args == ChunkArgs(streams[s].calls)
        IN  /\ args = DecodeEach(<<>>, streams[s].wire)
            /\ (streams[s].pc = "read" /\ Bot(s) <= Len(messages))
               => messages[Bot(s)].text = Concat(args)

\* a streaming turn has received two different non-empty chunks
C7_Witness ==
    \E s \in InFlight :
        LET args == ChunkArgs(streams[s].calls)
        IN  /\ Len(args) = 2
            /\ args[1] # <<>>
            /\ args[2] # <<>>
            /\ args[1] # args[2]

\* C8: a streamQuery call whose body reached end-of-data has invoked onChunk
\* once per chunk read, then onComplete exactly once, and never onError.
C8_CompleteOnce ==
    \A s \in 1..Len(streams) :
        streams[s].outcome = "eof" =>
            LET calls == streams[s].calls
                n == Len(streams[s].wire)
            IN  /\ streams[s].pc = "done"
                /\ Len(calls) = n + 1
                /\ \A k \in 1..n : calls[k].cb = "chunk"
                /\ calls[n + 1].cb = "complete"
                /\ Count(calls, "error") = 0

\* a stream has reached end-of-data after a chunk
C8_Witness ==
    \E s \in 1..Len(streams) :
        /\ streams[s].outcome = "eof"
        /\ streams[s].wire # <<>>

\* the source of stream s has failed: fetch rejected, the response has a
\* non-success status or no body, or a read rejected
TransportError(s) ==
    \/ streams[s].outcome \in { "network", "nobody", "readfail" }
    \/ streams[s].status # 0 /\ ~ResponseOk(streams[s].status)

\* C9: a streamQuery call that hit a transport error has invoked onError
\* exactly once, as its last callback, and never onComplete; with a non-success
\* status or a missing body it has invoked no onChunk at all.
C9_ErrorOnce ==
    \A s \in 1..Len(streams) :
        TransportError(s) =>
            LET calls == streams[s].calls
            IN  /\ streams[s].pc = "done"
                /\ Count(calls, "error") = 1
                /\ calls[Len(calls)].cb = "error"
                /\ Count(calls, "complete") = 0
                /\ streams[s].outcome # "readfail" => Len(calls) = 1

\* one turn was refused with a non-success status, another failed in a read
\* after a chunk
C9_Witness ==
    /\ Len(streams) = 2
    /\ streams[1].status = 500
    /\ streams[2].outcome = "readfail"
    /\ streams[2].wire # <<>>

\* message i is the one the chunk callbacks of the turn in flight write to
StreamingTarget(i) == isStreaming /\ i = LastMessageIndex(messages)

\* C10: the status of an assistant message only moves forward: a message whose
\* stream has completed or failed is never the streaming target, a failed
\* message stays failed, and a completed message never becomes failed.
C10_StatusForward ==
    /\ [](\A s \in 1..Len(streams) :
            streams[s].pc = "done" => ~StreamingTarget(Bot(s)))
    /\ [][ \A s \in 1..Len(streams) :
             Bot(s) <= Len(messages) =>
               /\ Bot(s) <= Len(messages')
               /\ messages[Bot(s)].error => messages'[Bot(s)].error
               /\ (streams[s].pc = "done" /\ ~messages[Bot(s)].error)
                  => ~messages'[Bot(s)].error
         ]_vars

\* the first turn completed, the second has since failed
C10_Witness ==
    /\ Len(streams) = 2
    /\ streams[1].outcome = "eof"
    /\ ~messages[2].error
    /\ streams[2].pc = "done"
    /\ messages[4].error

\* ---------------------------------------------------------------- the sections of a message

\* `line` begins with `prefix`, character for character
BeginsWith(line, prefix) ==
    /\ Len(line) >= Len(prefix)
    /\ \A k \in 1..Len(prefix) : line[k] = prefix[k]

\* `line` begins with `prefix` when the case of letters is ignored
BeginsWithAnyCase(line, prefix) ==
    /\ Len(line) >= Len(prefix)
    /\ \A k \in 1..Len(prefix) : Lower(line[k]) = Lower(prefix[k])

\* the non-blank lines of a text, trimmed, in order
TextLines(text) ==
    LET lines == NonBlank(Split(text, <<>>))
    IN  [j \in 1..Len(lines) |-> Trim(lines[j])]

\* the first declared prefix `line` begins with, 0 if it begins with none
DeclaredMatch(line) ==
    LET ks == { k \in 1..Len(answerPrefixes) : BeginsWith(line, answerPrefixes[k]) }
    IN  IF ks = {} THEN 0 ELSE CHOOSE k \in ks : \A i \in ks : k <= i

IsMarker(line) == DeclaredMatch(line) # 0

Markers(L) == { j \in 1..Len(L) : IsMarker(L[j]) }

FirstMarker(L) == CHOOSE j \in Markers(L) : \A i \in Markers(L) : j <= i

\* what follows the prefix on a marker line, trimmed
Remainder(line) ==
    Trim(SubSeq(line, Len(answerPrefixes[DeclaredMatch(line)]) + 1, Len(line)))

\* the remainder of a marker line as answer lines: none when it is empty
RemainderLines(line) ==
    IF Remainder(line) = <<>> THEN <<>> ELSE <<Remainder(line)>>

\* C11: for a text with at least one line that, trimmed, begins with a
\* recognized prefix, the reasoning is the non-blank lines before the first
\* such line, the answer is the non-empty remainder of that line followed by
\* all later non-blank lines, and structured is true (lines taken trimmed).
C11_MarkerSplitsText ==
    LET L == TextLines(accumulatedText)
    IN  Markers(L) # {} =>
            LET m == FirstMarker(L)
            IN  /\ sections.thinkingLines = SubSeq(L, 1, m - 1)
                /\ sections.answerLines =
                       RemainderLines(L[m]) \o SubSeq(L, m + 1, Len(L))
                /\ sections.isStructured

\* C12: a text with no marker line has an empty reasoning, all its non-blank
\* lines (trimmed, in order) as the answer, and structured false; structured
\* is true exactly when a marker line occurs in the text.
C12_NoMarkerAllAnswer ==
    LET L == TextLines(accumulatedText)
    IN  /\ Markers(L) = {} =>
               /\ sections.thinkingLines = <<>>
               /\ sections.answerLines = L
               /\ ~sections.isStructured
        /\ sections.isStructured <=> Markers(L) # {}

\* a text of several lines, none of them a marker, all shown as the answer
C12_Witness ==
    LET L == TextLines(accumulatedText)
    IN  /\ Len(L) >= 2
        /\ Markers(L) = {}
        /\ sections.answerLines = L
        /\ ~sections.isStructured

\* C13: after the first marker line every later non-blank line is appended to
\* the answer as it is, a line that begins with a recognized prefix included:
\* the last lines of the answer are the lines after the first marker.
C13_AnswerModeVerbatim ==
    LET L == TextLines(accumulatedText)
        A == sections.answerLines
    IN  Markers(L) # {} =>
            LET m == FirstMarker(L)
            IN  /\ Len(A) >= Len(L) - m
                /\ \A j \in (m + 1)..Len(L) : A[Len(A) - Len(L) + j] = L[j]

\* C14: the parser returns a well-formed result for every text and loses or
\* duplicates no line: every non-blank line gives one line of the result,
\* except a first marker line whose remainder is empty.
C14_NothingLost ==
    LET L == TextLines(accumulatedText)
        first == IF Markers(L) = {} THEN <<>> ELSE RemainderLines(L[FirstMarker(L)])
        kept == IF Markers(L) = {} THEN Len(L) ELSE Len(L) - 1 + Len(first)
    IN  /\ sections.isStructured \in BOOLEAN
        /\ DOMAIN sections.thinkingLines = 1..Len(sections.thinkingLines)
        /\ DOMAIN sections.answerLines = 1..Len(sections.answerLines)
        /\ Len(sections.thinkingLines) + Len(sections.answerLines) = kept

\* C15: a line is a marker exactly when it begins with a declared prefix in
\* the declared letter case, and it is treated under the first declared prefix
\* it begins with; a first line that differs from a prefix in case only is
\* shown unchanged, a first line that is a marker starts the answer.
C15_PrefixMatching ==
    LET L == TextLines(accumulatedText)
        shown == sections.thinkingLines \o sections.answerLines
    IN  /\ \A j \in 1..Len(L) : MatchPrefix(L[j], 1) = DeclaredMatch(L[j])
        /\ L # <<>> =>
               IF IsMarker(L[1])
               THEN /\ sections.thinkingLines = <<>>
                    /\ sections.isStructured
                    /\ Remainder(L[1]) # <<>> => shown[1] = Remainder(L[1])
               ELSE shown[1] = L[1]

\* a line that is "answer: ..." in lower case is kept as reasoning, prefix and
\* all, before a marker line in the declared case
C15_Witness ==
    LET L == TextLines(accumulatedText)
    IN  /\ Len(L) >= 2
        /\ BeginsWithAnyCase(L[1], answerPrefixes[1])
        /\ ~IsMarker(L[1])
        /\ IsMarker(L[2])
        /\ sections.thinkingLines = <<L[1]>>
        /\ sections.isStructured

\* C16: at every chunk boundary of the message in flight, the text parsed is
\* the concatenation of the chunks received and the sections shown are the
\* parser's result on that concatenation, however the text was chunked.
C16_SectionsFromScratch ==
    /\ accumulatedText = Concat(pieces)
    /\ sections = Parse(Concat(pieces))
    /\ \A ps \in { <<Chunk_Thinking, Chunk_Partial, Chunk_More>>,
                   <<Chunk_Thinking, Chunk_Ans, Chunk_wer>> } :
           pieces = ps => sections.thinkingLines = << <<"T">> >>
    /\ pieces = <<Chunk_Thinking, Chunk_Partial, Chunk_More>> =>
           sections.answerLines = << <<"d">>, <<"m">> >>
    /\ pieces = <<Chunk_Thinking, Chunk_Ans, Chunk_wer>> =>
           sections.answerLines = << <<"y">> >>

\* three chunks of a stream in flight: reasoning, a partial answer, more text
C16_Witness ==
    /\ viewStreaming
    /\ pieces = <<Chunk_Thinking, Chunk_Partial, Chunk_More>>
    /\ sections.thinkingLines = << <<"T">> >>
    /\ sections.answerLines = << <<"d">>, <<"m">> >>

\* ---------------------------------------------------------------- the conversation over time

\* C17: the conversation is append-only: no step (submit, chunk, completion,
\* error, open or close) removes or reorders a message; the messages before
\* the step are, with the same ids and senders, a prefix of those after it.
C17_AppendOnly ==
    [][ /\ Len(messages') >= Len(messages)
        /\ \A i \in 1..Len(messages) :
              /\ messages'[i].id = messages[i].id
              /\ messages'[i].sender = messages[i].sender
      ]_vars

\* two turns in the log, the first failed, the second answered with text,
\* and the window closed again
C17_Witness ==
    /\ Len(messages) = 4
    /\ messages[2].error
    /\ streams[2].outcome = "eof"
    /\ messages[4].text # <<>>
    /\ ~isOpen

C19_AbandonedAfterClose ==
    [][ (~isOpen /\ InFlight # {}) =>
            /\ messages' = messages
            /\ isStreaming' = isStreaming
      ]_vars

\* C20: every accepted submit is followed by the streaming flag going back to
\* false and by handleSend seeing it false; once the call of streamQuery has
\* returned the flag is false, and it goes from false to true only in an
\* accepted submit.
C20_StreamingEnds ==
    /\ isStreaming ~> ~isStreaming
    /\ closureStreaming ~> (~isStreaming /\ ~closureStreaming)
    /\ []((\A s \in 1..Len(streams) : streams[s].pc = "done") => ~isStreaming)
    /\ [][ (~isStreaming /\ isStreaming') =>
               /\ lastOp' = "handleSend"
               /\ Len(streams') = Len(streams) + 1
         ]_vars

\* a turn completed, a second submit was accepted after it and failed, and
\* the flag is false again for handleSend
C20_Witness ==
    /\ Len(streams) = 2
    /\ streams[1].outcome = "eof"
    /\ streams[2].outcome = "readfail"
    /\ ~isStreaming
    /\ ~closureStreaming

\* C21: a callback of a stream changes only the assistant message of the
\* submit that opened the stream: in a step of stream s every other message,
\* user messages and other turns' assistant messages, stays as it was and no
\* message is added.
C21_OwnMessageOnly ==
    [][ \A s \in 1..Len(streams) :
          (Len(streams') = Len(streams) /\ streams'[s] # streams[s]) =>
              /\ Len(messages') = Len(messages)
              /\ \A i \in 1..Len(messages) :
                    i # Bot(s) => messages'[i] = messages[i]
      ]_vars

\* the first turn was answered with text; the second turn has received a
\* chunk of its own and then failed
C21_Witness ==
    /\ Len(streams) = 2
    /\ streams[1].outcome = "eof"
    /\ messages[2].text # <<>>
    /\ ~messages[2].error
    /\ streams[2].outcome = "readfail"
    /\ streams[2].acc # <<>>
    /\ messages[4].error

\* every character of the text is white space (the empty text included)
AllSpace(text) == \A k \in 1..Len(text) : IsSpace(text[k])

\* C22: for a message text with no non-blank line, empty or made of white
\* space only, the parser returns an empty reasoning, an empty answer and
\* structured false.
C22_BlankTextEmptySections ==
    AllSpace(accumulatedText) =>
        /\ sections.thinkingLines = <<>>
        /\ sections.answerLines = <<>>
        /\ ~sections.isStructured

\* two chunks of white space and line breaks have been parsed
C22_Witness ==
    /\ Len(pieces) >= 2
    /\ accumulatedText # <<>>
    /\ AllSpace(accumulatedText)
    /\ sections = Parse(accumulatedText)
    /\ sections.answerLines = <<>>

\* C23: a first marker line with nothing but white space after its prefix
\* gives no answer line and switches to answer mode: structured is true, the
\* reasoning is the lines before it and every non-blank line after it is in
\* the answer, as it is.
C23_BareMarkerSwitchesMode ==
    LET L == TextLines(accumulatedText)
    IN  (Markers(L) # {} /\ Remainder(L[FirstMarker(L)]) = <<>>) =>
            LET m == FirstMarker(L)
            IN  /\ sections.isStructured
                /\ sections.thinkingLines = SubSeq(L, 1, m - 1)
                /\ sections.answerLines = SubSeq(L, m + 1, Len(L))

\* ---------------------------------------------------------------- decoding and ids

\* new TextDecoder().decode(bytes): the whole stream decoded in one call, an
\* unfinished sequence at its end decoded to the replacement character
DecodeWhole(bytes) ==
    LET d == Decode(<<>>, bytes)
    IN  d.text \o (IF d.pending = <<>> THEN <<>> ELSE <<Replacement>>)

\* C24: when a stream has completed, the fragments passed to onChunk,
\* concatenated, are the decoding of the whole byte stream, however it was cut
\* into chunks and whatever its last bytes are.
C24_ChunkingInvisible ==
    \A s \in 1..Len(streams) :
        streams[s].outcome = "eof" =>
            Concat(ChunkArgs(streams[s].calls)) = DecodeWhole(Concat(streams[s].wire))

\* C25: the messages of the log have pairwise distinct ids after any accepted
\* submits, whatever non-decreasing values the clock returns.
C25_DistinctIds ==
    \A i, j \in 1..Len(messages) :
        i # j => messages[i].id # messages[j].id

\* ---------------------------------------------------------------- growth of the text

DetailsShown ==
    /\ selectedTopicId # null
    /\ ~detailLoading
    /\ ~topicsError
    /\ selectedTopicDetails # null

\* C27: whenever detail loading is finished and details are displayed, they
\* are the details fetched for the topic that is selected now.
C27_DetailsOfSelectedTopic ==
    DetailsShown => selectedTopicDetails = selectedTopicId

\* message i of JsonQueryChat is the placeholder of a query
IsThinking(i) == jsonMessages[i].text = <<"Thinking...">>

C29_SingleUpload ==
    /\ Cardinality(Pending(uploads)) <= 1
    /\ Pending(uploads) # {} => uploadStatus = "uploading"

====
